---------------------------- MODULE Spec2Model ----------------------------
(***************************************************************************)
(* A model of sagevision: the histogram scene detector, the farthest-point *)
(* keyframe selector, the lazily loading Summarizer, the Pipeline.run      *)
(* orchestrator with its progress callback, and the Tk front end with its  *)
(* worker threads, after queue, progress bar and Run and Stop buttons.     *)
(*                                                                         *)
(* Numbers.  The code computes in floating point; the model computes the   *)
(* same quantities exactly, as integers over a stated common denominator:  *)
(*   - a histogram density count/(N*8) is kept as its count,               *)
(*   - a chi-square distance is kept as an integer numerator over          *)
(*     Chi2Den(N),                                                         *)
(*   - a unit embedding is kept scaled by EmbScale, a dot product and a    *)
(*     cosine distance scaled by EmbScale^2,                               *)
(*   - a progress percent is kept as a pair <<numerator, denominator>>.    *)
(* Texts (captions, summaries, error strings) are sequences of tokens;     *)
(* the empty string is << >>.                                              *)
(***************************************************************************)
EXTENDS Integers, Sequences, FiniteSets, TLC

VARIABLES
    video,           \* the file behind video_path: does it open, and its frames
    run,             \* the activation record of one Pipeline.run call
    ref,             \* the same call made with a callback that never raises
    stop_requested,  \* SageVisionApp._stop_requested
    det,             \* the activation record of one SceneDetector.detect_scenes call
    sel,             \* the activation record of one KeyframeSelector.select call
    summ,            \* a Summarizer object and the activation record of its summarize call
    gui              \* the SageVisionApp: its fields, its worker threads, Tk's after queue

vars == <<video, run, ref, stop_requested, det, sel, summ, gui>>

-----------------------------------------------------------------------------
(* Bounds of the model.                                                    *)

MaxFrames == 4          \* frames handed to detect_scenes on its own
MaxVideoFrames == 6     \* frames of a video handed to Pipeline.run
MaxMinSceneLen == 3     \* largest min_scene_len a detector is configured with
MaxEmb == 4             \* rows of an embedding matrix handed to select
MaxKeyframes == 3       \* largest n_keyframes a selector is configured with
MaxCalls == 2           \* detect_scenes calls made on one detector
MaxRepeatFrames == 2    \* frames handed to each of these calls
MaxTexts == 2           \* texts handed to one summarize call
MaxSummarizeCalls == 3  \* summarize calls made on one Summarizer
MaxRuns == 2            \* worker threads the GUI starts
MaxSceneLen == 11       \* frames of the longest scene given to select
MaxEvents == 1          \* progress events one worker's run reports

-----------------------------------------------------------------------------
(* Small helpers.                                                          *)

Max(a, b) == IF a >= b THEN a ELSE b
Min(a, b) == IF a <= b THEN a ELSE b

RECURSIVE SumSeq(_)
SumSeq(s) == IF s = << >> THEN 0 ELSE Head(s) + SumSeq(Tail(s))

RECURSIVE SeqsUpTo(_, _)
\* every sequence over S of length 0..n
SeqsUpTo(S, n) ==
    IF n = 0 THEN {<< >>}
    ELSE LET shorter == SeqsUpTo(S, n - 1)
         IN  shorter \cup {Append(s, x) : s \in {t \in shorter : Len(t) = n - 1}, x \in S}

RECURSIVE Gcd(_, _)
Gcd(a, b) == IF b = 0 THEN a ELSE Gcd(b, a % b)

RECURSIVE LcmUpTo(_)
\* lcm(1, ..., m)
LcmUpTo(m) == IF m <= 1 THEN 1 ELSE LET l == LcmUpTo(m - 1) IN (l * m) \div Gcd(l, m)

-----------------------------------------------------------------------------
(* Frames.  A frame is an RGB image: a sequence of pixels, each a triple   *)
(* of channel values in 0..255.  All frames of one input have the same     *)
(* number of pixels, as the frames decoded from one video do.              *)

PxBlack == <<0, 0, 0>>
PxDark  == <<7, 7, 7>>
PxRed   == <<255, 0, 0>>
PxWhite == <<255, 255, 255>>

FBlack == <<PxBlack, PxBlack>>
FDark  == <<PxDark, PxDark>>
FRed   == <<PxRed, PxRed>>
FWhite == <<PxWhite, PxWhite>>
FMixed == <<PxBlack, PxWhite>>

\* the frames of test_scene_detector_detects_boundaries: four uniformly (200, 10, 10)
\* frames, then four uniformly (10, 200, 10) ones (a uniform frame has the same
\* histogram densities whatever its size)
PxReddish  == <<200, 10, 10>>
PxGreenish == <<10, 200, 10>>
FReddish  == <<PxReddish, PxReddish>>
FGreenish == <<PxGreenish, PxGreenish>>
TestFrames ==
    <<FReddish, FReddish, FReddish, FReddish, FGreenish, FGreenish, FGreenish, FGreenish>>

\* the frames detect_scenes is tried on
FrameKinds == {FBlack, FDark, FRed, FWhite, FMixed}
\* the frames a video is made of
VideoFrameKinds == {FBlack, FWhite}

-----------------------------------------------------------------------------
(* SceneDetector                                                           *)

NBins == 32          \* np.histogram(..., bins=32, ...)
HistRange == 256     \* np.histogram(..., range=(0, 256), ...)
BinWidth == HistRange \div NBins

\* SceneDetector._histogram: the three per-channel histograms, concatenated.
\* Entry (c-1)*NBins + b + 1 counts the pixels whose channel c falls in bin b;
\* the density the code stores there is this count / (Len(img) * BinWidth).
Histogram(img) ==
    [j \in 1..(3 * NBins) |->
        LET c == ((j - 1) \div NBins) + 1
            b == (j - 1) % NBins
        IN  Cardinality({p \in 1..Len(img) : img[p][c] \div BinWidth = b})]

\* The denominator over which Chi2Num is the chi-square distance of two
\* histograms of N-pixel frames.
Chi2Den(N) == 2 * N * BinWidth * LcmUpTo(2 * N)

\* chi2 = 0.5 * sum((h1 - h2)**2 / denom), denom = h1 + h2 with 0 replaced by 1.0
\* (detector.py 57-61).  With h = count/(N*BinWidth) a term is
\* (c1-c2)^2 / ((c1+c2) * N * BinWidth), and 0 where both counts are 0.
Chi2Num(h1, h2, N) ==
    LET L == LcmUpTo(2 * N)
    IN  SumSeq([j \in 1..Len(h1) |->
            IF h1[j] + h2[j] = 0 THEN 0
            ELSE ((h1[j] - h2[j]) * (h1[j] - h2[j]) * L) \div (h1[j] + h2[j])])

\* chi2 >= self.threshold, the threshold being the rational thr[1]/thr[2], thr[2] > 0
Chi2AtLeast(h1, h2, N, thr) == Chi2Num(h1, h2, N) * thr[2] >= thr[1] * Chi2Den(N)

\* SceneDetector.__init__: self.min_scene_len = max(1, int(min_scene_len))
SceneDetector(threshold, min_scene_len) ==
    [threshold |-> threshold, min_scene_len |-> Max(1, min_scene_len)]

DefaultThreshold == <<1, 2>>      \* threshold: float = 0.5
DefaultMinSceneLen == 5           \* min_scene_len: int = 5


\* the thresholds a detector is tried with: 0, 0.1, 0.25 and the default 0.5
Thresholds == {<<0, 1>>, <<1, 10>>, <<1, 4>>, DefaultThreshold}

\* hists[i] of detect_scenes (0-based i), computed on demand
HistAt(frames, i) == Histogram(frames[i + 1])

\* DetectBody without the debounce: every cut at or above the threshold is recorded
DetectBodyNoDebounce(self, frames, st, i) ==
    IF Chi2AtLeast(HistAt(frames, i - 1), HistAt(frames, i), Len(frames[1]), self.threshold)
    THEN [boundaries |-> Append(st.boundaries, i), last_boundary |-> i]
    ELSE st

\* DetectBody comparing with the first boundary instead of the last one
DetectBodyStaleLast(self, frames, st, i) ==
    IF /\ Chi2AtLeast(HistAt(frames, i - 1), HistAt(frames, i), Len(frames[1]), self.threshold)
       /\ (i - st.last_boundary) >= self.min_scene_len
    THEN [boundaries |-> Append(st.boundaries, i), last_boundary |-> st.last_boundary]
    ELSE st

\* detector.py 54-64, one iteration of `for i in range(1, n)`: st holds
\* boundaries and last_boundary
DetectBody(self, frames, st, i) ==
    IF /\ Chi2AtLeast(HistAt(frames, i - 1), HistAt(frames, i), Len(frames[1]), self.threshold)
       /\ (i - st.last_boundary) >= self.min_scene_len
    THEN [boundaries |-> Append(st.boundaries, i), last_boundary |-> i]
    ELSE st

RECURSIVE DetectLoop(_, _, _, _)
DetectLoop(self, frames, st, i) ==
    IF i >= Len(frames) THEN st
    ELSE DetectLoop(self, frames, DetectBody(self, frames, st, i), i + 1)

\* detect_scenes without its early return for no frames
detect_scenes_no_empty_check(self, frames) ==
    DetectLoop(self, frames, [boundaries |-> <<0>>, last_boundary |-> 0], 1).boundaries

\* detect_scenes closing its result with the number of frames as a last boundary
detect_scenes_with_end(self, frames) ==
    IF Len(frames) = 0 THEN << >>
    ELSE Append(DetectLoop(self, frames, [boundaries |-> <<0>>, last_boundary |-> 0], 1).boundaries,
                Len(frames))

\* SceneDetector.detect_scenes, as one function of the detector and the frames
detect_scenes(self, frames) ==
    IF Len(frames) = 0 THEN << >>
    ELSE DetectLoop(self, frames, [boundaries |-> <<0>>, last_boundary |-> 0], 1).boundaries

\* no detect_scenes call is being followed.  self is the detector object, frames
\* the caller's list; i and st are the locals of the call.  Kept for the record:
\* entry, the detector and the frames as they were when the call was made; calls,
\* the calls made on this detector; seen, what each returned call was given, what
\* it returned and what it left behind.
DetIdle ==
    [pc |-> "idle", self |-> SceneDetector(DefaultThreshold, DefaultMinSceneLen),
     arg |-> DefaultMinSceneLen, frames |-> << >>, i |-> 0,
     st |-> [boundaries |-> << >>, last_boundary |-> 0], result |-> << >>,
     entry |-> [self |-> SceneDetector(DefaultThreshold, DefaultMinSceneLen),
                frames |-> << >>],
     calls |-> 0, seen |-> {}]

\* a call detect_scenes(frames) on SceneDetector(threshold, min_scene_len)
DetCalled(threshold, min_scene_len, frames) ==
    [DetIdle EXCEPT !.pc = "call", !.self = SceneDetector(threshold, min_scene_len),
                    !.arg = min_scene_len, !.frames = frames,
                    !.entry = [self |-> SceneDetector(threshold, min_scene_len),
                               frames |-> frames],
                    !.calls = 1]

\* `return value` of detect_scenes
DetReturn(d, value) ==
    [d EXCEPT !.pc = "returned", !.result = value,
              !.seen = @ \cup {[self |-> d.entry.self, frames |-> d.entry.frames,
                                result |-> value,
                                self_after |-> d.self, frames_after |-> d.frames]}]

\* DetectEnter with boundaries and last_boundary kept on the detector between calls
DetectEnterKeepsState ==
    /\ det.pc = "call"
    /\ det' = IF Len(det.frames) = 0
              THEN DetReturn(det, << >>)
              ELSE [det EXCEPT !.pc = "loop", !.i = 1,
                               !.st = IF det.st.boundaries = << >>
                                      THEN [boundaries |-> <<0>>, last_boundary |-> 0]
                                      ELSE det.st]
    /\ UNCHANGED <<video, run, ref, stop_requested, sel, summ, gui>>

\* detector.py 41-53: the empty input returns at once, else the loop is set up
DetectEnter ==
    /\ det.pc = "call"
    /\ det' = IF Len(det.frames) = 0
              THEN DetReturn(det, << >>)
              ELSE [det EXCEPT !.pc = "loop", !.i = 1,
                               !.st = [boundaries |-> <<0>>, last_boundary |-> 0]]
    /\ UNCHANGED <<video, run, ref, stop_requested, sel, summ, gui>>

\* detector.py 54-64: one loop iteration
DetectIterate ==
    /\ det.pc = "loop"
    /\ det.i < Len(det.frames)
    /\ det' = [det EXCEPT !.st = DetectBody(det.self, det.frames, det.st, det.i),
                          !.i = det.i + 1]
    /\ UNCHANGED <<video, run, ref, stop_requested, sel, summ, gui>>

\* detector.py 65: return boundaries
DetectReturn ==
    /\ det.pc = "loop"
    /\ det.i >= Len(det.frames)
    /\ det' = DetReturn(det, det.st.boundaries)
    /\ UNCHANGED <<video, run, ref, stop_requested, sel, summ, gui>>

\* the frames of the calls made one after another on one detector
RepeatFrames == SeqsUpTo(VideoFrameKinds, MaxRepeatFrames)

\* the caller makes the next detect_scenes call on the same detector
\* (detector.py 35-40: the call gets the object and a new frame list)
DetectAgain ==
    /\ det.pc = "returned"
    /\ det.calls < MaxCalls
    /\ \E f \in RepeatFrames :
          det' = [det EXCEPT !.pc = "call", !.frames = f, !.calls = det.calls + 1,
                            !.entry = [self |-> det.self, frames |-> f]]
    /\ UNCHANGED <<video, run, ref, stop_requested, sel, summ, gui>>

-----------------------------------------------------------------------------
(* KeyframeSelector                                                        *)

EmbScale == 5      \* a unit embedding e is kept as the integer vector EmbScale * e
DefaultKeyframes == 5     \* the 5 of max(1, min(5, n // max(1, n // 5)))

\* What the image model returns for a frame (encode_image / get_image_features):
\* raw feature vectors, of integer length so that their normalisation is exact.
Features == {<<5, 0>>, <<10, 0>>, <<3, 4>>, <<0, 5>>, <<-5, 0>>, <<0, 0>>}

Dot(a, b) == SumSeq([j \in 1..Len(a) |-> a[j] * b[j]])

\* np.linalg.norm of a feature vector (an integer for every vector of Features)
Norm(v) == CHOOSE r \in 0..Dot(v, v) : r * r = Dot(v, v)

\* selector.py 128-131: L2-normalize, a zero norm replaced by 1.0
Normalize(v) ==
    LET nrm == IF Norm(v) = 0 THEN 1 ELSE Norm(v)
    IN  [j \in 1..Len(v) |-> (v[j] * EmbScale) \div nrm]

\* KeyframeSelector._compute_embeddings, given the model's features per frame
compute_embeddings(feats) == [i \in 1..Len(feats) |-> Normalize(feats[i])]

\* 1.0 - np.dot(embs, embs[idx]), scaled by EmbScale^2; idx is 0-based
DistsTo(embs, idx) ==
    [i \in 1..Len(embs) |-> EmbScale * EmbScale - Dot(embs[i], embs[idx + 1])]

\* int(np.argmax(d)): the first (0-based) index holding the maximum
ArgMax(d) ==
    (CHOOSE i \in 1..Len(d) :
        /\ \A j \in 1..Len(d) : d[j] <= d[i]
        /\ \A j \in 1..(i - 1) : d[j] < d[i]) - 1

\* selector.py 141-145, one iteration of `for _ in range(1, k)`
FpsBody(embs, st) ==
    LET idx == ArgMax(st.min_dists)
        dists == DistsTo(embs, idx)
    IN  [selected  |-> Append(st.selected, idx),
         min_dists |-> [i \in 1..Len(embs) |-> Min(st.min_dists[i], dists[i])]]

\* selector.py 138-140: selected = [0], min_dists = distances to point 0
FpsStart(embs) == [selected |-> <<0>>, min_dists |-> DistsTo(embs, 0)]

RECURSIVE FpsLoop(_, _, _)
\* `rounds` further iterations of the sampling loop
FpsLoop(embs, st, rounds) ==
    IF rounds <= 0 THEN st ELSE FpsLoop(embs, FpsBody(embs, st), rounds - 1)

\* list(range(n))
Range(n) == [i \in 1..n |-> i - 1]

\* KeyframeSelector._farthest_point_sampling(embs, k)
farthest_point_sampling(embs, k) ==
    IF k >= Len(embs) THEN Range(Len(embs))
    ELSE FpsLoop(embs, FpsStart(embs), k - 1).selected

RECURSIVE Insert(_, _)
Insert(s, x) ==
    IF s = << >> THEN <<x>>
    ELSE IF x <= Head(s) THEN <<x>> \o s
    ELSE <<Head(s)>> \o Insert(Tail(s), x)

RECURSIVE Sort(_)
\* list.sort(): ascending, duplicates kept
Sort(s) == IF s = << >> THEN << >> ELSE Insert(Sort(Tail(s)), Head(s))

\* select's k with the default taken as one keyframe per DefaultKeyframes frames
KeyframeCountPerFive(n_keyframes, n) ==
    LET k == IF n_keyframes # 0 THEN n_keyframes
             ELSE Max(1, Min(DefaultKeyframes, n \div DefaultKeyframes))
    IN  Min(k, n)

\* selector.py 158-160: k = self.n_keyframes or max(1, min(5, n // max(1, n // 5)));
\* k = min(k, n).  An n_keyframes of 0 stands for None (both are falsy).
KeyframeCount(n_keyframes, n) ==
    LET k == IF n_keyframes # 0 THEN n_keyframes
             ELSE Max(1, Min(DefaultKeyframes, n \div Max(1, n \div DefaultKeyframes)))
    IN  Min(k, n)

\* KeyframeSelector.select, given the model's features for the frames
select(n_keyframes, feats) ==
    IF Len(feats) = 0 THEN << >>
    ELSE Sort(farthest_point_sampling(compute_embeddings(feats),
                                      KeyframeCount(n_keyframes, Len(feats))))

\* no select call is being followed.  embedded and iterations keep the record of
\* what a call did: whether it computed embeddings, and how many sampling
\* iterations it ran.
SelIdle ==
    [pc |-> "idle", n_keyframes |-> 0, feats |-> << >>, k |-> 0, embs |-> << >>,
     st |-> [selected |-> << >>, min_dists |-> << >>], rounds |-> 0, result |-> << >>,
     embedded |-> FALSE, iterations |-> 0]

\* a call select(frames) on KeyframeSelector(n_keyframes=...)
\* a scene of n frames, longer than the scenes enumerated in full, given to a
\* selector whose n_keyframes is not configured
FeatureList == <<(<<5, 0>>), (<<10, 0>>), (<<3, 4>>), (<<0, 5>>), (<<-5, 0>>), (<<0, 0>>)>>

LongScene(n) == [j \in 1..n |-> FeatureList[((j - 1) % Len(FeatureList)) + 1]]

SelCalled(n_keyframes, feats) ==
    [SelIdle EXCEPT !.pc = "call", !.n_keyframes = n_keyframes, !.feats = feats]

\* selector.py 154-161: the empty input returns at once; else k and the embeddings
SelectEnter ==
    /\ sel.pc = "call"
    /\ sel' = IF Len(sel.feats) = 0
              THEN [sel EXCEPT !.pc = "returned", !.result = << >>]
              ELSE [sel EXCEPT !.pc = "sample",
                               !.k = KeyframeCount(sel.n_keyframes, Len(sel.feats)),
                               !.embs = compute_embeddings(sel.feats),
                               !.embedded = TRUE]
    /\ UNCHANGED <<video, run, ref, stop_requested, det, summ, gui>>

\* SampleEnter returning every index only when k exceeds n
SampleEnterStrict ==
    /\ sel.pc = "sample"
    /\ sel' = IF sel.k > Len(sel.embs)
              THEN [sel EXCEPT !.pc = "sort", !.st.selected = Range(Len(sel.embs))]
              ELSE [sel EXCEPT !.pc = "loop", !.st = FpsStart(sel.embs),
                               !.rounds = sel.k - 1]
    /\ UNCHANGED <<video, run, ref, stop_requested, det, summ, gui>>

\* selector.py 135-140: k >= n returns every index, else the sampling loop is set up
SampleEnter ==
    /\ sel.pc = "sample"
    /\ sel' = IF sel.k >= Len(sel.embs)
              THEN [sel EXCEPT !.pc = "sort", !.st.selected = Range(Len(sel.embs))]
              ELSE [sel EXCEPT !.pc = "loop", !.st = FpsStart(sel.embs),
                               !.rounds = sel.k - 1]
    /\ UNCHANGED <<video, run, ref, stop_requested, det, summ, gui>>

\* selector.py 141-145: one sampling iteration
SampleIterate ==
    /\ sel.pc = "loop"
    /\ sel.rounds > 0
    /\ sel' = [sel EXCEPT !.st = FpsBody(sel.embs, sel.st), !.rounds = sel.rounds - 1,
                          !.iterations = sel.iterations + 1]
    /\ UNCHANGED <<video, run, ref, stop_requested, det, summ, gui>>

\* selector.py 146: return selected
SampleReturn ==
    /\ sel.pc = "loop"
    /\ sel.rounds <= 0
    /\ sel' = [sel EXCEPT !.pc = "sort"]
    /\ UNCHANGED <<video, run, ref, stop_requested, det, summ, gui>>

\* selector.py 163-164: sel.sort(); return sel
SelectReturn ==
    /\ sel.pc = "sort"
    /\ sel' = [sel EXCEPT !.pc = "returned", !.result = Sort(sel.st.selected)]
    /\ UNCHANGED <<video, run, ref, stop_requested, det, summ, gui>>

-----------------------------------------------------------------------------
(* Collaborators of the pipeline, as far as the pipeline depends on them   *)

\* the features the image model computes for a frame
ModelFeatures(frame) ==
    CASE frame = FBlack -> <<5, 0>>
      [] frame = FDark  -> <<10, 0>>
      [] frame = FRed   -> <<0, 5>>
      [] frame = FWhite -> <<3, 4>>
      [] OTHER          -> <<0, 0>>

FrameName(frame) ==
    CASE frame = FBlack -> "black"
      [] frame = FDark  -> "dark"
      [] frame = FRed   -> "red"
      [] frame = FWhite -> "white"
      [] OTHER          -> "mixed"

\* VisionCaptioner.caption: the text the captioning model decodes for an image
caption(image) == <<"caption", FrameName(image)>>

\* VisionCaptioner.caption_batch
caption_batch(images) == [j \in 1..Len(images) |-> caption(images[j])]

RECURSIVE Join(_)
\* "\n".join(texts)
Join(texts) ==
    IF texts = << >> THEN << >>
    ELSE IF Len(texts) = 1 THEN texts[1]
    ELSE texts[1] \o <<"\n">> \o Join(Tail(texts))

\* Summarizer.summarize: "" for no texts, else the model's summary of the join
summarize(texts) ==
    IF texts = << >> THEN << >>
    ELSE <<"summary(">> \o Join(texts) \o <<")">>

\* VideoParser.frames, iterated to its end by list(): the open failure is raised
\* by the generator's first step, not by the call that creates the generator
VideoOpens(v) == v.opens

Videos ==
    {[opens |-> FALSE, frames |-> << >>]}
    \cup {[opens |-> TRUE, frames |-> f] : f \in SeqsUpTo(VideoFrameKinds, MaxVideoFrames)}

-----------------------------------------------------------------------------
(* Summarizer: the object with its lazily loaded model, call by call       *)

\* the captions a Summarizer is handed
SummTexts == SeqsUpTo({caption(FBlack), caption(FWhite)}, MaxTexts)

\* Summarizer.__init__ (self._pipeline = None), no call being followed.  loaded:
\* self._pipeline is not None; device: self.device.type.  Kept for the record:
\* loads, the times transformers.pipeline(...) was called; invocations, the times
\* self._pipeline(...) was called; calls, the summarize calls made; entry, the
\* object as it was when the call was made.
SummIdle ==
    [pc |-> "idle", loaded |-> FALSE, device |-> "cpu", texts |-> << >>,
     result |-> << >>, loads |-> 0, invocations |-> 0, calls |-> 0,
     entry |-> [loaded |-> FALSE, device |-> "cpu", loads |-> 0, invocations |-> 0]]

\* what a call leaves alone or changes of the Summarizer object
SummObject(s) ==
    [loaded |-> s.loaded, device |-> s.device, loads |-> s.loads,
     invocations |-> s.invocations]

\* the call summarize(texts) on Summarizer object s
SummCalled(s, texts) ==
    [s EXCEPT !.pc = "call", !.texts = texts, !.result = << >>, !.calls = s.calls + 1,
              !.entry = SummObject(s)]

\* SummarizeEnter without the check for no texts
SummarizeEnterNoEmptyCheck ==
    /\ summ.pc = "call"
    /\ summ' = [summ EXCEPT !.pc = "load"]
    /\ UNCHANGED <<video, run, ref, stop_requested, det, sel, gui>>

\* summarizer.py 51-53: texts = list(texts); no texts return "" at once
SummarizeEnter ==
    /\ summ.pc = "call"
    /\ summ' = IF summ.texts = << >>
               THEN [summ EXCEPT !.pc = "returned", !.result = << >>]
               ELSE [summ EXCEPT !.pc = "load"]
    /\ UNCHANGED <<video, run, ref, stop_requested, det, sel, gui>>

\* summarizer.py 33-48, _load: nothing when the model is loaded; else
\* transformers.pipeline on the device, and once more on the CPU if that raised;
\* what the second attempt raises leaves summarize
Load ==
    /\ summ.pc = "load"
    /\ \/ /\ summ.loaded
          /\ summ' = [summ EXCEPT !.pc = "invoke"]
       \/ /\ ~summ.loaded
          /\ \/ summ' = [summ EXCEPT !.pc = "invoke", !.loaded = TRUE, !.loads = @ + 1]
             \/ summ' = [summ EXCEPT !.pc = "invoke", !.loaded = TRUE, !.loads = @ + 2,
                                     !.device = "cpu"]
             \/ summ' = [summ EXCEPT !.pc = "raised", !.loads = @ + 2, !.device = "cpu"]
    /\ UNCHANGED <<video, run, ref, stop_requested, det, sel, gui>>

\* summarizer.py 56-60: the model is run on the joined texts; its summary_text is
\* returned, "" when it gives no list, an empty list or no summary_text; what it
\* raises leaves summarize
Invoke ==
    /\ summ.pc = "invoke"
    /\ \/ summ' = [summ EXCEPT !.pc = "returned", !.invocations = @ + 1,
                               !.result = summarize(summ.texts)]
       \/ summ' = [summ EXCEPT !.pc = "returned", !.invocations = @ + 1, !.result = << >>]
       \/ summ' = [summ EXCEPT !.pc = "raised", !.invocations = @ + 1]
    /\ UNCHANGED <<video, run, ref, stop_requested, det, sel, gui>>

\* the caller makes the next summarize call on the same Summarizer
\* (pipeline.py 84 and 93: one Summarizer serves every scene and the aggregation)
SummarizeAgain ==
    /\ summ.pc \in {"returned", "raised"}
    /\ summ.calls < MaxSummarizeCalls
    /\ \E t \in SummTexts : summ' = SummCalled(summ, t)
    /\ UNCHANGED <<video, run, ref, stop_requested, det, sel, gui>>

-----------------------------------------------------------------------------
(* Pipeline.run                                                            *)

ErrMarker == "[Pipeline error]"
ErrOpen == <<ErrMarker, "failed to open video">>
ErrDetect == <<ErrMarker, "scene detection failed">>

\* the record of a run(video_path, progress_callback) that has not started;
\* callback: whether progress_callback is callable
RunInit(callback) ==
    [pc |-> "parse", callback |-> callback, status |-> "running", result |-> << >>,
     exc |-> "none", frames |-> << >>, boundaries |-> << >>, i |-> 0,
     key_idxs |-> << >>, captions |-> << >>, scene_summaries |-> << >>,
     events |-> << >>, calls |-> << >>, cb_errors |-> 0, faults |-> {}]

\* no run is being followed
RunIdle == [RunInit(FALSE) EXCEPT !.pc = "idle", !.status = "idle"]

Event(stage, scene, pct, msg) == [stage |-> stage, scene |-> scene, pct |-> pct, msg |-> msg]

\* `return value`
Return(r, value) == [r EXCEPT !.pc = "done", !.status = "returned", !.result = value]

\* an exception leaves run() for its caller
Raise(r, what) == [r EXCEPT !.pc = "done", !.status = "raised", !.exc = what]

\* _cb without its try/except: what the callback raises leaves run()
CbPropagating(r, stage, scene, pct, msg, raises) ==
    LET a == [r EXCEPT !.events = Append(@, Event(stage, scene, pct, msg))]
    IN  IF r.callback /\ raises THEN Raise(a, "callback") ELSE a

\* pipeline.py 31-37, _cb: the callback is called if callable, and what it raises
\* is swallowed.  events lists the _cb calls the run made.
Cb(r, stage, scene, pct, msg, raises) ==
    [r EXCEPT !.events = Append(@, Event(stage, scene, pct, msg)),
              !.cb_errors = IF r.callback /\ raises THEN @ + 1 ELSE @]

\* a collaborator is called; scene is the scene being processed, -1 outside the loop
Call(r, fn, scene, arg) ==
    [r EXCEPT !.calls = Append(@, [fn |-> fn, scene |-> scene, arg |-> arg])]

\* the collaborator just called raised (kept for the record; the code keeps nothing)
Fault(r, who, scene) == [r EXCEPT !.faults = @ \cup {<<who, scene>>}]

\* pipeline.py 40-47: parser.frames() only creates the generator and cannot fail
StepParse(r, r1, r2) ==
    LET a == Cb(r, "parsing", -1, <<0, 1>>, "opening video", r1)
        b == Call(a, "frames", -1, << >>)
        c == Cb(b, "parsing", -1, <<1, 1>>, "done", r2)
    IN  [c EXCEPT !.pc = "collect"]

\* pipeline.py 50-51: frames = list(frames_iterator), outside any try
StepCollect(r, v, r1) ==
    LET a == Cb(r, "scene_detection", -1, <<0, 1>>, "collecting frames", r1)
    IN  IF VideoOpens(v)
        THEN [a EXCEPT !.pc = "detect", !.frames = v.frames]
        ELSE Raise(Fault(a, "frames", -1), "IOError")

\* pipeline.py 52-58, detect_scenes returning
StepDetect(r, r1) ==
    LET a == Call(r, "detect_scenes", -1, r.frames)
        found == detect_scenes(SceneDetector(DefaultThreshold, DefaultMinSceneLen), r.frames)
        b == Cb(a, "scene_detection", -1, <<1, 1>>, "found", r1)
    IN  [b EXCEPT !.pc = "scenes", !.boundaries = found, !.i = 0]

\* pipeline.py 55-57, detect_scenes raising
StepDetectFailed(r, r1) ==
    LET a == Fault(Call(r, "detect_scenes", -1, r.frames), "detector", -1)
        b == Cb(a, "scene_detection", -1, <<1, 1>>, "failed", r1)
    IN  Return(b, ErrDetect)

total_scenes(r) == Max(1, Len(r.boundaries))

\* frames[start_idx:end_idx] of scene i (pipeline.py 69-70)
scene_frames(r) ==
    LET start_idx == r.boundaries[r.i + 1]
        end_idx == IF (r.i + 1) < Len(r.boundaries) THEN r.boundaries[r.i + 2]
                   ELSE Len(r.frames)
    IN  SubSeq(r.frames, start_idx + 1, end_idx)

\* StepSceneStart reporting the scene's start with the percent of its end
StepSceneStartPctOfEnd(r, r1, r2) ==
    LET a == Cb(r, "scene_start", r.i, <<r.i + 1, total_scenes(r)>>, "starting", r1)
    IN  IF scene_frames(r) = << >>
        THEN [Cb(a, "scene_done", r.i, <<r.i + 1, total_scenes(r)>>, "empty scene", r2)
                 EXCEPT !.i = r.i + 1]
        ELSE [a EXCEPT !.pc = "select"]

\* pipeline.py 64-73: the head of one loop iteration
StepSceneStart(r, r1, r2) ==
    LET a == Cb(r, "scene_start", r.i, <<r.i, total_scenes(r)>>, "starting", r1)
    IN  IF scene_frames(r) = << >>
        THEN [Cb(a, "scene_done", r.i, <<r.i + 1, total_scenes(r)>>, "empty scene", r2)
                 EXCEPT !.i = r.i + 1]
        ELSE [a EXCEPT !.pc = "select"]

\* pipeline.py 75-76, selector.select returning
StepSelect(r) ==
    LET a == Call(r, "select", r.i, scene_frames(r))
        feats == [j \in 1..Len(scene_frames(r)) |-> ModelFeatures(scene_frames(r)[j])]
    IN  [a EXCEPT !.pc = "caption", !.key_idxs = select(0, feats)]

\* the selection failure without its try/except: it leaves run()
StepSelectFailedUncaught(r) ==
    Raise(Fault(Call(r, "select", r.i, scene_frames(r)), "selector", r.i), "selector")

\* pipeline.py 77-79, selector.select raising: fall back to the first frame
StepSelectFailed(r) ==
    LET a == Fault(Call(r, "select", r.i, scene_frames(r)), "selector", r.i)
    IN  [a EXCEPT !.pc = "caption", !.key_idxs = <<0>>]

\* keyframes = [scene_frames[k] for k in key_idxs]
keyframes(r) == [j \in 1..Len(r.key_idxs) |-> scene_frames(r)[r.key_idxs[j] + 1]]

\* pipeline.py 80-82, caption_batch returning
StepCaption(r) ==
    LET a == Call(r, "caption_batch", r.i, keyframes(r))
    IN  [a EXCEPT !.pc = "summarize", !.captions = caption_batch(keyframes(r))]

\* pipeline.py 82, caption_batch raising: nothing catches it
StepCaptionFailed(r) ==
    Raise(Fault(Call(r, "caption_batch", r.i, keyframes(r)), "captioner", r.i), "captioner")

\* pipeline.py 84-86, summarize returning
StepSummarize(r, r1) ==
    LET a == Call(r, "summarize", r.i, r.captions)
        b == [a EXCEPT !.scene_summaries = Append(@, summarize(r.captions))]
        c == Cb(b, "scene_done", r.i, <<r.i + 1, total_scenes(r)>>, "scene done", r1)
    IN  [c EXCEPT !.pc = "scenes", !.i = r.i + 1]

\* pipeline.py 84, summarize raising: nothing catches it
StepSummarizeFailed(r) ==
    Raise(Fault(Call(r, "summarize", r.i, r.captions), "summarizer", r.i), "summarizer")

\* StepAggregate without the early return: the Summarizer is called on no summary
StepAggregateAlwaysFinal(r, r1, r2) ==
    [Cb(r, "aggregation", -1, <<0, 1>>, "aggregating scene summaries", r1)
        EXCEPT !.pc = "final"]

\* pipeline.py 89-92: the loop is over; no scene summary returns ""
StepAggregate(r, r1, r2) ==
    LET a == Cb(r, "aggregation", -1, <<0, 1>>, "aggregating scene summaries", r1)
    IN  IF a.scene_summaries = << >>
        THEN Return(Cb(a, "aggregation", -1, <<1, 1>>, "no scenes", r2), << >>)
        ELSE [a EXCEPT !.pc = "final"]

\* StepFinal with "finished" emitted before the aggregation's last event
StepFinalFinishedFirst(r, r1, r2) ==
    LET a == Call(r, "summarize", -1, r.scene_summaries)
        b == Cb(a, "finished", -1, <<1, 1>>, "pipeline complete", r1)
        c == Cb(b, "aggregation", -1, <<1, 1>>, "done", r2)
    IN  Return(c, summarize(r.scene_summaries))

\* pipeline.py 93-96, the final summarize returning
StepFinal(r, r1, r2) ==
    LET a == Call(r, "summarize", -1, r.scene_summaries)
        b == Cb(a, "aggregation", -1, <<1, 1>>, "done", r1)
        c == Cb(b, "finished", -1, <<1, 1>>, "pipeline complete", r2)
    IN  Return(c, summarize(r.scene_summaries))

\* pipeline.py 93, the final summarize raising: nothing catches it
StepFinalFailed(r) ==
    Raise(Fault(Call(r, "summarize", -1, r.scene_summaries), "summarizer", -1), "summarizer")

\* what a callback may do when called: raise or not
Raises(r) == IF r.callback THEN BOOLEAN ELSE {FALSE}


\* ref follows run step by step when a reference run is being followed
Shadow(next) == ref' = IF ref.pc = "idle" THEN ref ELSE next

Parse ==
    /\ run.pc = "parse"
    /\ \E r1, r2 \in Raises(run) : run' = StepParse(run, r1, r2)
    /\ Shadow(StepParse(ref, FALSE, FALSE))
    /\ UNCHANGED <<video, stop_requested, det, sel, summ, gui>>

Collect ==
    /\ run.pc = "collect"
    /\ \E r1 \in Raises(run) : run' = StepCollect(run, video, r1)
    /\ Shadow(StepCollect(ref, video, FALSE))
    /\ UNCHANGED <<video, stop_requested, det, sel, summ, gui>>

DetectOk ==
    /\ run.pc = "detect"
    /\ \E r1 \in Raises(run) : run' = StepDetect(run, r1)
    /\ Shadow(StepDetect(ref, FALSE))
    /\ UNCHANGED <<video, stop_requested, det, sel, summ, gui>>

\* detect_scenes returns [] for no frames before it computes anything
\* (detector.py 41-44): it can only fail on at least one frame
DetectFails ==
    /\ run.pc = "detect"
    /\ Len(run.frames) > 0
    /\ \E r1 \in Raises(run) : run' = StepDetectFailed(run, r1)
    /\ Shadow(StepDetectFailed(ref, FALSE))
    /\ UNCHANGED <<video, stop_requested, det, sel, summ, gui>>

SceneStart ==
    /\ run.pc = "scenes"
    /\ run.i < Len(run.boundaries)
    /\ \E r1, r2 \in Raises(run) : run' = StepSceneStart(run, r1, r2)
    /\ Shadow(StepSceneStart(ref, FALSE, FALSE))
    /\ UNCHANGED <<video, stop_requested, det, sel, summ, gui>>

SelectOk ==
    /\ run.pc = "select"
    /\ run' = StepSelect(run)
    /\ Shadow(StepSelect(ref))
    /\ UNCHANGED <<video, stop_requested, det, sel, summ, gui>>

SelectFails ==
    /\ run.pc = "select"
    /\ run' = StepSelectFailed(run)
    /\ Shadow(StepSelectFailed(ref))
    /\ UNCHANGED <<video, stop_requested, det, sel, summ, gui>>

CaptionOk ==
    /\ run.pc = "caption"
    /\ run' = StepCaption(run)
    /\ Shadow(StepCaption(ref))
    /\ UNCHANGED <<video, stop_requested, det, sel, summ, gui>>

CaptionFails ==
    /\ run.pc = "caption"
    /\ run' = StepCaptionFailed(run)
    /\ Shadow(StepCaptionFailed(ref))
    /\ UNCHANGED <<video, stop_requested, det, sel, summ, gui>>

SummarizeOk ==
    /\ run.pc = "summarize"
    /\ \E r1 \in Raises(run) : run' = StepSummarize(run, r1)
    /\ Shadow(StepSummarize(ref, FALSE))
    /\ UNCHANGED <<video, stop_requested, det, sel, summ, gui>>

SummarizeFails ==
    /\ run.pc = "summarize"
    /\ run' = StepSummarizeFailed(run)
    /\ Shadow(StepSummarizeFailed(ref))
    /\ UNCHANGED <<video, stop_requested, det, sel, summ, gui>>

Aggregate ==
    /\ run.pc = "scenes"
    /\ run.i >= Len(run.boundaries)
    /\ \E r1, r2 \in Raises(run) : run' = StepAggregate(run, r1, r2)
    /\ Shadow(StepAggregate(ref, FALSE, FALSE))
    /\ UNCHANGED <<video, stop_requested, det, sel, summ, gui>>

FinalOk ==
    /\ run.pc = "final"
    /\ \E r1, r2 \in Raises(run) : run' = StepFinal(run, r1, r2)
    /\ Shadow(StepFinal(ref, FALSE, FALSE))
    /\ UNCHANGED <<video, stop_requested, det, sel, summ, gui>>

FinalFails ==
    /\ run.pc = "final"
    /\ run' = StepFinalFailed(run)
    /\ Shadow(StepFinalFailed(ref))
    /\ UNCHANGED <<video, stop_requested, det, sel, summ, gui>>

\* gui.py 83-97, SageVisionApp.stop_pipeline while the worker runs: the flag is
\* set; Pipeline has no stop method, and run() never reads the flag
StopPipeline ==
    /\ run.status = "running"
    /\ ~stop_requested
    /\ stop_requested' = TRUE
    /\ UNCHANGED <<video, run, ref, det, sel, summ, gui>>

-----------------------------------------------------------------------------
(* SageVisionApp: the Tk main thread, its worker threads and the after     *)
(* queue through which a worker hands calls to the main thread             *)

\* what the path entry holds: nothing, a path that is no file, a file
Paths == {"", "missing", "file"}

\* percent is None
NoPercent == << >>

\* The percents a progress callback is given: None, 0.0, 0.25, 0.5, 1.0, and
\* outside the unit interval 37.5, 150 and -5 (each exact in floating point).
Percents == {NoPercent, <<0, 1>>, <<1, 4>>, <<1, 2>>, <<1, 1>>, <<75, 2>>, <<150, 1>>, <<-5, 1>>}

\* int(x) of the rational x = a/b, b > 0: rounding toward zero
IntOf(a, b) == IF a >= 0 THEN a \div b ELSE -((-a) \div b)

\* gui.py 139-150: pct_display, NoPercent standing for None
PctDisplay(percent) ==
    IF percent = NoPercent THEN NoPercent
    ELSE LET a == percent[1]
             b == percent[2]
         IN  IF 0 <= a /\ a <= b THEN <<IntOf(100 * a, b)>>
             ELSE IF a < 0 THEN <<0>>
             ELSE IF a > 100 * b THEN <<100>>
             ELSE <<IntOf(a, b)>>

\* SageVisionApp.__init__ (gui.py 28-70): the widgets and flags of a new app.
\* workers: one record per thread started, with the position of its worker(), its
\* res once pipeline.run has ended and the _done calls it has scheduled;
\* after: the calls scheduled with master.after(0, ...), oldest first;
\* dialog: the last message box shown; output: what _done wrote last.
GuiIdle ==
    [path |-> "", is_running |-> FALSE, run_btn |-> "normal", stop_btn |-> "disabled",
     progress_bar |-> 0, workers |-> << >>, after |-> << >>, dialog |-> "none",
     output |-> "none"]

\* a thread about to run worker() (gui.py 134)
NewWorker == [pc |-> "run", emitted |-> 0, res |-> "none", dones |-> 0]

\* a thread whose worker() is over: its locals are gone, what it scheduled stays
Exited(w, dones) == [pc |-> "exit", emitted |-> 0, res |-> "none", dones |-> dones]

\* _update_progress setting the bar to int(val) of a percent outside [0, 1],
\* without the clamp
update_progress_unclamped(g, percent) ==
    IF percent = NoPercent THEN g
    ELSE IF 0 <= percent[1] /\ percent[1] <= percent[2]
         THEN [g EXCEPT !.progress_bar = IntOf(100 * percent[1], percent[2])]
         ELSE [g EXCEPT !.progress_bar = IntOf(percent[1], percent[2])]

\* gui.py 137-164, _update_progress: the bar is set when pct_display is not None
update_progress(g, percent) ==
    IF PctDisplay(percent) = NoPercent THEN g
    ELSE [g EXCEPT !.progress_bar = PctDisplay(percent)[1]]

\* gui.py 166-177, _done(result)
done(g, result) ==
    [g EXCEPT !.progress_bar = 100, !.output = result, !.run_btn = "normal",
              !.stop_btn = "disabled", !.is_running = FALSE]

\* the worker threads whose pipeline.run call has not ended
InProgress(g) == {w \in 1..Len(g.workers) : g.workers[w].pc = "run"}

\* the user edits the path entry or picks a file (gui.py 42, 72-78)
SetPath ==
    /\ \E p \in Paths \ {gui.path} : gui' = [gui EXCEPT !.path = p]
    /\ UNCHANGED <<video, run, ref, stop_requested, det, sel, summ>>

\* run_pipeline without the check of _is_running
RunPipelineUnguarded ==
    /\ IF gui.path = ""
       THEN gui' = [gui EXCEPT !.dialog = "No file"] /\ UNCHANGED stop_requested
       ELSE IF gui.path = "missing"
       THEN gui' = [gui EXCEPT !.dialog = "File not found"] /\ UNCHANGED stop_requested
       ELSE /\ Len(gui.workers) < MaxRuns
            /\ gui' = [gui EXCEPT !.run_btn = "disabled", !.stop_btn = "normal",
                                  !.is_running = TRUE,
                                  !.workers = Append(@, NewWorker)]
            /\ stop_requested' = FALSE
    /\ UNCHANGED <<video, run, ref, det, sel, summ>>

\* gui.py 99-135, run_pipeline: refused without a path, without a file and while
\* running; else the buttons and flags are set and the worker thread is started
RunPipeline ==
    /\ IF gui.path = ""
       THEN gui' = [gui EXCEPT !.dialog = "No file"] /\ UNCHANGED stop_requested
       ELSE IF gui.path = "missing"
       THEN gui' = [gui EXCEPT !.dialog = "File not found"] /\ UNCHANGED stop_requested
       ELSE IF gui.is_running
       THEN gui' = [gui EXCEPT !.dialog = "Already running"] /\ UNCHANGED stop_requested
       ELSE /\ Len(gui.workers) < MaxRuns
            /\ gui' = [gui EXCEPT !.run_btn = "disabled", !.stop_btn = "normal",
                                  !.is_running = TRUE,
                                  !.workers = Append(@, NewWorker)]
            /\ stop_requested' = FALSE
    /\ UNCHANGED <<video, run, ref, det, sel, summ>>

\* gui.py 83-97, stop_pipeline, from the Stop button while it is enabled (a click
\* with the flag already set changes nothing)
StopClicked ==
    /\ gui.stop_btn = "normal"
    /\ ~stop_requested
    /\ stop_requested' = TRUE
    /\ UNCHANGED <<video, run, ref, det, sel, summ, gui>>

\* gui.py 121-123, progress_cb on a worker thread, called by pipeline.run:
\* master.after(0, self._update_progress, stage, percent, message)
WorkerProgress ==
    /\ \E w \in InProgress(gui), p \in Percents :
          /\ gui.workers[w].emitted < MaxEvents
          /\ gui' = [gui EXCEPT !.workers[w].emitted = @ + 1,
                                !.after = Append(@, [fn |-> "_update_progress",
                                                     percent |-> p, res |-> "none"])]
    /\ UNCHANGED <<video, run, ref, stop_requested, det, sel, summ>>

\* worker() without its try/except: what pipeline.run raises ends the thread
WorkerRunEndsUncaught ==
    /\ \E w \in InProgress(gui) :
          \/ gui' = [gui EXCEPT !.workers[w].pc = "ended", !.workers[w].res = "string"]
          \/ gui' = [gui EXCEPT !.workers[w] = Exited(@, @.dones)]
    /\ UNCHANGED <<video, run, ref, stop_requested, det, sel, summ>>

\* gui.py 126-130: pipeline.run returns or raises on a worker thread; res is its
\* string or the error text
WorkerRunEnds ==
    /\ \E w \in InProgress(gui), res \in {"string", "error"} :
          gui' = [gui EXCEPT !.workers[w].pc = "ended", !.workers[w].res = res]
    /\ UNCHANGED <<video, run, ref, stop_requested, det, sel, summ>>

\* gui.py 131-132: master.after(0, self._done, res), and the thread ends
WorkerSchedulesDone ==
    /\ \E w \in 1..Len(gui.workers) :
          /\ gui.workers[w].pc = "ended"
          /\ gui' = [gui EXCEPT !.workers[w] = Exited(@, @.dones + 1),
                                !.after = Append(@, [fn |-> "_done", percent |-> NoPercent,
                                                     res |-> gui.workers[w].res])]
    /\ UNCHANGED <<video, run, ref, stop_requested, det, sel, summ>>

\* the main loop runs the oldest scheduled call, an _update_progress
UpdateProgress ==
    /\ gui.after # << >>
    /\ Head(gui.after).fn = "_update_progress"
    /\ gui' = [update_progress(gui, Head(gui.after).percent) EXCEPT !.after = Tail(gui.after)]
    /\ UNCHANGED <<video, run, ref, stop_requested, det, sel, summ>>

\* the main loop runs the oldest scheduled call, a _done
Done ==
    /\ gui.after # << >>
    /\ Head(gui.after).fn = "_done"
    /\ gui' = [done(gui, Head(gui.after).res) EXCEPT !.after = Tail(gui.after)]
    /\ stop_requested' = FALSE
    /\ UNCHANGED <<video, run, ref, det, sel, summ>>

-----------------------------------------------------------------------------
(* Specifications                                                          *)

\* one Pipeline.run on any video, with or without a callable callback
Init ==
    /\ video \in Videos
    /\ \E cb \in BOOLEAN : run = RunInit(cb)
    /\ ref = RunIdle
    /\ stop_requested = FALSE
    /\ det = DetIdle
    /\ sel = SelIdle
    /\ summ = SummIdle
    /\ gui = GuiIdle

Next ==
    \/ Parse \/ Collect \/ DetectOk \/ DetectFails \/ SceneStart
    \/ SelectOk \/ SelectFails \/ CaptionOk \/ CaptionFails
    \/ SummarizeOk \/ SummarizeFails \/ Aggregate \/ FinalOk \/ FinalFails
    \/ StopPipeline

Spec == Init /\ [][Next]_vars

\* the same run beside a reference run whose callback never raises
InitCb ==
    /\ video \in Videos
    /\ run = RunInit(TRUE)
    /\ ref = RunInit(TRUE)
    /\ stop_requested = FALSE
    /\ det = DetIdle
    /\ sel = SelIdle
    /\ summ = SummIdle
    /\ gui = GuiIdle

SpecCb == InitCb /\ [][Next]_vars

\* one detect_scenes call on any frames, threshold and min_scene_len, or the call
\* of test_scene_detector_detects_boundaries
InitDetect ==
    /\ video = [opens |-> FALSE, frames |-> << >>]
    /\ run = RunIdle
    /\ ref = RunIdle
    /\ stop_requested = FALSE
    /\ \/ \E t \in Thresholds, m \in 0..MaxMinSceneLen, f \in SeqsUpTo(FrameKinds, MaxFrames) :
             det = DetCalled(t, m, f)
       \/ det = DetCalled(<<1, 10>>, 1, TestFrames)
    /\ sel = SelIdle
    /\ summ = SummIdle
    /\ gui = GuiIdle

NextDetect == DetectEnter \/ DetectIterate \/ DetectReturn

SpecDetect == InitDetect /\ [][NextDetect]_vars

\* up to MaxCalls detect_scenes calls, one after another, on one detector
InitDetectRepeat ==
    /\ video = [opens |-> FALSE, frames |-> << >>]
    /\ run = RunIdle
    /\ ref = RunIdle
    /\ stop_requested = FALSE
    /\ \E t \in {<<1, 10>>, DefaultThreshold}, m \in {1, 2}, f \in RepeatFrames :
          det = DetCalled(t, m, f)
    /\ sel = SelIdle
    /\ summ = SummIdle
    /\ gui = GuiIdle

NextDetectRepeat == DetectEnter \/ DetectIterate \/ DetectReturn \/ DetectAgain

SpecDetectRepeat == InitDetectRepeat /\ [][NextDetectRepeat]_vars

\* one select call for any configured n_keyframes (0: not configured) and features
InitSelect ==
    /\ video = [opens |-> FALSE, frames |-> << >>]
    /\ run = RunIdle
    /\ ref = RunIdle
    /\ stop_requested = FALSE
    /\ det = DetIdle
    /\ \/ \E k \in 0..MaxKeyframes, f \in SeqsUpTo(Features, MaxEmb) : sel = SelCalled(k, f)
       \/ \E n \in (MaxEmb + 1)..MaxSceneLen : sel = SelCalled(0, LongScene(n))
    /\ summ = SummIdle
    /\ gui = GuiIdle

NextSelect == SelectEnter \/ SampleEnter \/ SampleIterate \/ SampleReturn \/ SelectReturn

SpecSelect == InitSelect /\ [][NextSelect]_vars

\* summarize calls, one after another, on one Summarizer
InitSummarizer ==
    /\ video = [opens |-> FALSE, frames |-> << >>]
    /\ run = RunIdle
    /\ ref = RunIdle
    /\ stop_requested = FALSE
    /\ det = DetIdle
    /\ sel = SelIdle
    /\ \E d \in {"cuda", "mps", "cpu"}, t \in SummTexts :
          summ = SummCalled([SummIdle EXCEPT !.device = d], t)
    /\ gui = GuiIdle

NextSummarizer == SummarizeEnter \/ Load \/ Invoke \/ SummarizeAgain

SpecSummarizer == InitSummarizer /\ [][NextSummarizer]_vars

\* the app from its start: the user's clicks, the worker threads, the main loop
InitGui ==
    /\ video = [opens |-> FALSE, frames |-> << >>]
    /\ run = RunIdle
    /\ ref = RunIdle
    /\ stop_requested = FALSE
    /\ det = DetIdle
    /\ sel = SelIdle
    /\ summ = SummIdle
    /\ gui = GuiIdle

NextGui ==
    \/ SetPath \/ RunPipeline \/ StopClicked
    \/ WorkerProgress \/ WorkerRunEnds \/ WorkerSchedulesDone
    \/ UpdateProgress \/ Done

SpecGui == InitGui /\ [][NextGui]_vars

\* the same app where what can run does run: pipeline.run comes to its end, a
\* worker thread that can take its next step takes it, and Tk's main loop runs
\* the calls scheduled with after
SpecGuiFair ==
    /\ SpecGui
    /\ WF_vars(WorkerRunEnds)
    /\ WF_vars(WorkerSchedulesDone)
    /\ WF_vars(UpdateProgress)
    /\ WF_vars(Done)

-----------------------------------------------------------------------------
(* Properties                                                              *)

Stages(r) == {r.events[j].stage : j \in 1..Len(r.events)}
CallsTo(r, fn) == {j \in 1..Len(r.calls) : r.calls[j].fn = fn}
HasMarker(text) == Len(text) >= 1 /\ text[1] = ErrMarker
LastEvent(r) == r.events[Len(r.events)]
SceneFaults(r, who) == {f \in r.faults : f[1] = who /\ f[2] >= 0}

\* C1: whatever the frame source, the detector, the selector, the captioner, the
\* summarizer and the callback do, run ends by returning a string and no exception
\* reaches its caller.
C1_RunAlwaysReturnsAString ==
    run.pc = "done" => run.status = "returned"

\* C2: when the video cannot be opened, run emits a terminal "parsing" event,
\* returns "[Pipeline error] failed to open video", emits no event of a later
\* stage, and raises nothing.
C2_OpenFailureReturnsErrOpen ==
    (run.pc = "done" /\ ~VideoOpens(video)) =>
        /\ run.status = "returned"
        /\ run.result = ErrOpen
        /\ Stages(run) = {"parsing"}
        /\ LastEvent(run).pct = <<1, 1>>

\* C3: a failure while the frames are materialized or while the scene detector runs
\* ends the run with a terminal "scene_detection" event and an error string that
\* carries the marker; no scene is processed and nothing is raised.
C3_SegmentingFailureReturnsError ==
    (run.pc = "done" /\ (<<"frames", -1>> \in run.faults \/ <<"detector", -1>> \in run.faults)) =>
        /\ run.status = "returned"
        /\ HasMarker(run.result)
        /\ LastEvent(run).stage = "scene_detection"
        /\ LastEvent(run).pct = <<1, 1>>
        /\ Stages(run) \subseteq {"parsing", "scene_detection"}
        /\ CallsTo(run, "caption_batch") = {}
        /\ CallsTo(run, "summarize") = {}

\* C4: a captioner or summarizer failure while scene i is processed stays inside
\* that scene: the run goes on to the later scenes and to the aggregation, and
\* returns a string.
C4_SceneFailureStaysLocal ==
    (SceneFaults(run, "captioner") \cup SceneFaults(run, "summarizer") # {}) =>
        /\ run.status # "raised"
        /\ run.pc = "done" => "aggregation" \in Stages(run)

\* the first frame of scene i of run r
FirstFrameOfScene(r, i) == r.frames[r.boundaries[i + 1] + 1]
EventsOf(r, stage, scene) ==
    {j \in 1..Len(r.events) : r.events[j].stage = stage /\ r.events[j].scene = scene}

\* C5: when keyframe selection fails for scene i, the only keyframe is the scene's
\* first frame and the captioner is handed exactly that frame; the failure raises
\* nothing, and a run that then returns has produced the scene's summary and
\* "done" event, has started every following scene and has reached the aggregation.
C5_SelectionFailureFallsBack ==
    \A f \in SceneFaults(run, "selector") :
        LET i == f[2]
        IN  /\ run.exc # "selector"
            /\ (run.pc = "caption" /\ run.i = i) => run.key_idxs = <<0>>
            /\ \A j \in CallsTo(run, "caption_batch") :
                   run.calls[j].scene = i => run.calls[j].arg = <<FirstFrameOfScene(run, i)>>
            /\ run.status = "returned" =>
                   /\ \E j \in EventsOf(run, "scene_done", i) : run.events[j].msg = "scene done"
                   /\ Len(run.scene_summaries) = Len(run.boundaries)
                   /\ \A later \in (i + 1)..(Len(run.boundaries) - 1) :
                          EventsOf(run, "scene_start", later) # {}
                   /\ "aggregation" \in Stages(run)

\* a finished run whose only scene, of several frames, was captioned from the fallback
C5_Witness ==
    /\ run.status = "returned"
    /\ <<"selector", 0>> \in run.faults
    /\ Len(run.frames) >= 2
    /\ LastEvent(run).stage = "finished"

\* where a stage comes in the order parsing, scene_detection, scene 0 start, scene 0
\* done, scene 1 start, ..., aggregation, finished
StageRank(r, e) ==
    CASE e.stage = "parsing"         -> 0
      [] e.stage = "scene_detection" -> 1
      [] e.stage = "scene_start"     -> 2 + 2 * e.scene
      [] e.stage = "scene_done"      -> 3 + 2 * e.scene
      [] e.stage = "aggregation"     -> 2 + 2 * Len(r.boundaries)
      [] OTHER                       -> 3 + 2 * Len(r.boundaries)

PctLeq(p, q) == p[1] * q[2] <= q[1] * p[2]

\* run r returned a final summary of at least one scene
Successful(r) == r.status = "returned" /\ ~HasMarker(r.result) /\ Len(r.boundaries) >= 1

\* C6: in a successful run with at least one scene the events come as "parsing",
\* then "scene_detection", then per scene in ascending order its start and then its
\* done event, then "aggregation", then "finished" last; within a stage the percent
\* never decreases.
C6_EventsInStageOrder ==
    Successful(run) =>
        /\ \A j, k \in 1..Len(run.events) :
               j < k => /\ StageRank(run, run.events[j]) <= StageRank(run, run.events[k])
                        /\ (run.events[j].stage = run.events[k].stage
                            /\ run.events[j].scene = run.events[k].scene)
                               => PctLeq(run.events[j].pct, run.events[k].pct)
        /\ {"parsing", "scene_detection", "aggregation"} \subseteq Stages(run)
        /\ \A i \in 0..(Len(run.boundaries) - 1) :
               /\ Cardinality(EventsOf(run, "scene_start", i)) = 1
               /\ Cardinality(EventsOf(run, "scene_done", i)) = 1
        /\ Cardinality(EventsOf(run, "finished", -1)) = 1
        /\ LastEvent(run).stage = "finished"

C6_Witness ==
    /\ Successful(run)
    /\ run.callback
    /\ Len(run.frames) >= 2
    /\ run.faults = {}

\* C7: once a stop has been requested during a run, no further scene is started.
C7_NoSceneStartsAfterStop ==
    [][stop_requested =>
          ~(/\ Len(run'.events) > Len(run.events)
            /\ run'.events[Len(run.events) + 1].stage = "scene_start")]_vars

\* C8: select returns min(k, n) indices, pairwise distinct, ascending and within
\* 0..n-1, for every embedding matrix (equal rows included) and every requested k.
C8_SelectionExactDistinctAscending ==
    sel.pc = "returned" =>
        LET n == Len(sel.feats)
            out == sel.result
        IN  /\ sel.n_keyframes # 0 => Len(out) = Min(sel.n_keyframes, n)
            /\ \A j, k \in 1..Len(out) : j < k => out[j] < out[k]
            /\ \A j \in 1..Len(out) : 0 <= out[j] /\ out[j] < n

\* C9: detect_scenes returns << >> for no frames and <<0>> for one frame; for any
\* frames its result starts with 0, is strictly increasing with consecutive
\* boundaries at least max(1, min_scene_len) apart, and stays below the number of
\* frames.
C9_BoundariesWellFormed ==
    det.pc = "returned" =>
        LET n == Len(det.frames)
            out == det.result
            gap == Max(1, det.arg)
        IN  /\ n = 0 => out = << >>
            /\ n = 1 => out = <<0>>
            /\ n >= 1 =>
                  /\ Len(out) >= 1 /\ out[1] = 0
                  /\ \A j \in 1..(Len(out) - 1) :
                         out[j] < out[j + 1] /\ out[j + 1] - out[j] >= gap
                  /\ \A j \in 1..Len(out) : out[j] < n

\* several boundaries found by a detector that debounces
C9_Witness ==
    /\ det.pc = "returned"
    /\ Len(det.result) >= 2
    /\ det.self.min_scene_len >= 2
    /\ Len(det.frames) > 2 * Len(det.result) - 1

\* what a caller and the collaborators see of a run
RunView(r) ==
    [pc |-> r.pc, status |-> r.status, exc |-> r.exc, result |-> r.result,
     calls |-> r.calls, events |-> r.events]

\* C10: whatever the callback raises, the run makes the collaborator calls, attempts
\* the progress events and returns the string of the run whose callback never raises.
C10_CallbackErrorsSwallowed == RunView(run) = RunView(ref)

\* a run that ended with a final summary though its callback raised more than once
C10_Witness ==
    /\ run.cb_errors >= 2
    /\ Successful(run)
    /\ ref.cb_errors = 0
    /\ ref.pc = "done"

\* the calls of the Summarizer made by the Aggregating stage of run r
FinalSummarizeCalls(r) == {j \in CallsTo(r, "summarize") : r.calls[j].scene = -1}

\* the per-scene call of the Summarizer for scene i of run r
SceneSummarizeCalls(r, i) == {j \in CallsTo(r, "summarize") : r.calls[j].scene = i}

\* C11: in the Aggregating stage a run without scene summaries returns "" at once,
\* with no Summarizer call and no "finished" event; a run with scene summaries
\* calls the Summarizer exactly once, on the scene summaries in scene order, and
\* when that call returns the run emits "finished" last and returns its result.
C11_AggregationReturnsFinalSummary ==
    (run.pc = "done" /\ "aggregation" \in Stages(run)) =>
        IF run.scene_summaries = << >>
        THEN /\ run.status = "returned"
             /\ run.result = << >>
             /\ FinalSummarizeCalls(run) = {}
             /\ "finished" \notin Stages(run)
        ELSE /\ Cardinality(FinalSummarizeCalls(run)) = 1
             /\ \A j \in FinalSummarizeCalls(run) :
                    /\ run.calls[j].arg = run.scene_summaries
                    /\ \A k \in 1..Len(run.calls) : k <= j
                    /\ \A i \in 1..Len(run.calls[j].arg) :
                           \E c \in SceneSummarizeCalls(run, i - 1) :
                               run.calls[j].arg[i] = summarize(run.calls[c].arg)
             /\ run.status = "returned" =>
                    /\ LastEvent(run).stage = "finished"
                    /\ run.result = summarize(run.scene_summaries)
                    /\ run.result # << >>

\* a run that returned the Summarizer's result for its scene summaries
C11_Witness ==
    /\ run.status = "returned"
    /\ run.scene_summaries # << >>
    /\ Cardinality(FinalSummarizeCalls(run)) = 1
    /\ run.result = summarize(run.scene_summaries)

\* C12: on a video that opens and yields no frame, run returns "" and emits only
\* parsing, scene_detection and aggregation events: no scene start or done event,
\* no "finished" event, and no call of the keyframe selector or the captioner.
C12_NoFramesReturnsEmpty ==
    (VideoOpens(video) /\ video.frames = << >>) =>
        /\ Stages(run) \subseteq {"parsing", "scene_detection", "aggregation"}
        /\ CallsTo(run, "select") = {}
        /\ CallsTo(run, "caption_batch") = {}
        /\ CallsTo(run, "summarize") = {}
        /\ run.status # "raised"
        /\ run.pc = "done" => (run.status = "returned" /\ run.result = << >>)

\* the run on a video without frames has ended, after its "no scenes" event
C12_Witness ==
    /\ VideoOpens(video) /\ video.frames = << >>
    /\ run.pc = "done"
    /\ run.callback
    /\ LastEvent(run) = Event("aggregation", -1, <<1, 1>>, "no scenes")
    /\ CallsTo(run, "detect_scenes") # {}

\* the rationals p and q are equal
PctEq(p, q) == p[1] * q[2] = q[1] * p[2]

\* the positions of the per-scene events of run r
SceneEvents(r) == {j \in 1..Len(r.events) : r.events[j].stage \in {"scene_start", "scene_done"}}

\* C13: every event's percent lies in [0, 1]; the start event of scene i carries
\* i / total and its done event (i + 1) / total, total = max(1, number of
\* boundaries); so the percents of successive scene events never decrease and the
\* done event of the last scene carries 1.
C13_ScenePercents ==
    LET total == Max(1, Len(run.boundaries))
    IN  /\ \A j \in 1..Len(run.events) :
               LET p == run.events[j].pct
               IN  p[2] > 0 /\ 0 <= p[1] /\ p[1] <= p[2]
        /\ \A j \in SceneEvents(run) :
               LET e == run.events[j]
               IN  /\ e.scene \in 0..(Len(run.boundaries) - 1)
                   /\ e.stage = "scene_start" => PctEq(e.pct, <<e.scene, total>>)
                   /\ e.stage = "scene_done" => PctEq(e.pct, <<e.scene + 1, total>>)
                   /\ (e.stage = "scene_done" /\ e.scene = Len(run.boundaries) - 1)
                          => PctEq(e.pct, <<1, 1>>)
        /\ \A j, k \in SceneEvents(run) :
               j < k => PctLeq(run.events[j].pct, run.events[k].pct)

\* a run that reported the start and the end of its last scene
C13_Witness ==
    /\ run.callback
    /\ \E j, k \in SceneEvents(run) :
           /\ j < k
           /\ run.events[j] = Event("scene_start", 0, <<0, 1>>, "starting")
           /\ run.events[k] = Event("scene_done", 0, <<1, 1>>, "scene done")
    /\ Len(run.frames) >= 2

\* C14: a select call whose requested k is at least the number n of frames runs no
\* sampling iteration and returns 0, ..., n-1 in order; for n = 0 it returns the
\* empty selection without computing embeddings.
C14_AllIndicesWithoutSampling ==
    LET n == Len(sel.feats)
    IN  (sel.pc # "idle" /\ sel.n_keyframes >= n) =>
            /\ sel.iterations = 0
            /\ sel.pc # "loop"
            /\ sel.pc = "returned" =>
                   /\ Len(sel.result) = n
                   /\ \A j \in 1..n : sel.result[j] = j - 1
            /\ n = 0 => ~sel.embedded

\* every index returned for three equal embeddings and k = 3
C14_Witness ==
    /\ sel.pc = "returned"
    /\ sel.n_keyframes = 3
    /\ Len(sel.feats) = 3
    /\ sel.feats[1] = sel.feats[2] /\ sel.feats[2] = sel.feats[3]
    /\ sel.result = <<0, 1, 2>>
    /\ sel.embedded

\* C15: detect_scenes is deterministic and stateless: calls made with the same
\* frames on a detector with the same parameters return the same boundaries,
\* whatever calls came before or in between, each call returns what the first call
\* of a new detector with these parameters returns, and a call leaves the
\* detector's parameters and the caller's frames as they were.
C15_DetectScenesDeterministic ==
    /\ \A a, b \in det.seen :
           (a.self = b.self /\ a.frames = b.frames) => a.result = b.result
    /\ \A a \in det.seen :
           /\ a.result = detect_scenes(a.self, a.frames)
           /\ a.self_after = a.self
           /\ a.frames_after = a.frames
    /\ det.pc \in {"call", "loop"} => (det.self = det.entry.self /\ det.frames = det.entry.frames)

\* the second call on a detector returned two boundaries after a first call that
\* had returned one
C15_Witness ==
    /\ det.pc = "returned"
    /\ det.calls = 2
    /\ Len(det.result) = 2
    /\ \E a \in det.seen : Len(a.result) = 1 /\ a.frames # det.frames

\* C16: at most one pipeline.run call of the app's single Pipeline is in progress;
\* run_pipeline starts a worker thread only when none is running, and _is_running
\* is cleared only by _done, after the worker's run has ended.
C16_AtMostOneRunInProgress ==
    /\ [](Cardinality(InProgress(gui)) <= 1)
    /\ [](~gui.is_running => \A w \in 1..Len(gui.workers) : gui.workers[w].pc = "exit")
    /\ [][Len(gui'.workers) > Len(gui.workers)
             => (~gui.is_running /\ InProgress(gui) = {})]_vars
    /\ [][(gui.is_running /\ ~gui'.is_running)
             => (/\ gui.after # << >>
                 /\ Head(gui.after).fn = "_done"
                 /\ InProgress(gui) = {})]_vars

\* run_pipeline was invoked while the second run was in progress, and refused
C16_Witness ==
    /\ gui.dialog = "Already running"
    /\ gui.is_running
    /\ Len(gui.workers) = 2
    /\ InProgress(gui) = {2}

\* C17: summarize called with no texts returns "" and neither loads nor runs the
\* summarization model: the Summarizer is left loaded or not loaded as it was.
C17_EmptySummarizeLeavesModelAlone ==
    (summ.pc # "idle" /\ summ.texts = << >>) =>
        /\ summ.pc \in {"call", "returned"}
        /\ SummObject(summ) = summ.entry
        /\ summ.pc = "returned" => summ.result = << >>

\* no texts summarized to "" by a Summarizer whose model an earlier call had loaded
C17_Witness ==
    /\ summ.pc = "returned"
    /\ summ.texts = << >>
    /\ summ.result = << >>
    /\ summ.calls >= 2
    /\ summ.loaded
    /\ summ.invocations >= 1

\* the main loop runs an _update_progress call in this step
RunsUpdate ==
    /\ gui.after # << >>
    /\ Head(gui.after).fn = "_update_progress"
    /\ gui'.after = Tail(gui.after)

\* the main loop runs a _done call in this step
RunsDone ==
    /\ gui.after # << >>
    /\ Head(gui.after).fn = "_done"
    /\ gui'.after = Tail(gui.after)

\* v is the rational p clamped to [0, 100]
IsClamped(v, p) ==
    IF p[1] < 0 THEN v = 0
    ELSE IF p[1] > 100 * p[2] THEN v = 100
    ELSE v * p[2] = p[1]

\* v is the integer part of the rational p clamped to [0, 100]
IsClampedIntegerPart(v, p) ==
    IF p[1] < 0 THEN v = 0
    ELSE IF p[1] > 100 * p[2] THEN v = 100
    ELSE v * p[2] <= p[1] /\ p[1] < (v + 1) * p[2]

\* the percent p is a number outside [0, 1]
OtherPercent(p) == p # NoPercent /\ ~(0 <= p[1] /\ p[1] <= p[2])

\* an _update_progress step with a percent p in [0, 1] sets the bar to floor(100 p)
\* and one without a percent leaves it alone; a _done step sets it to 100
BarStep ==
    /\ RunsUpdate =>
           LET p == Head(gui.after).percent
               v == gui'.progress_bar
           IN  /\ p = NoPercent => v = gui.progress_bar
               /\ (p # NoPercent /\ ~OtherPercent(p)) =>
                      (v * p[2] <= 100 * p[1] /\ 100 * p[1] < (v + 1) * p[2])
    /\ RunsDone => gui'.progress_bar = 100

CosDist(embs, i, s) == EmbScale * EmbScale - Dot(embs[i + 1], embs[s + 1])

\* the smallest cosine distance from row i to a row of the non-empty set S
MinDistToSet(embs, i, S) ==
    LET ds == {CosDist(embs, i, s) : s \in S}
    IN  CHOOSE d \in ds : \A e \in ds : d <= e

\* C19: with k < n the sampling picks index 0 first, and every further pick is the
\* not yet selected index with the largest minimum cosine distance to the indices
\* selected before it, the lowest such index on ties; for k = 2 the result is index
\* 0 with the index whose embedding has the smallest dot product with embedding 0.
C19_FarthestPointPicks ==
    LET n == Len(sel.embs)
        picks == sel.st.selected
    IN  (sel.pc \in {"loop", "sort", "returned"} /\ sel.k < n) =>
            /\ picks[1] = 0
            /\ \A j \in 2..Len(picks) :
                   LET before == {picks[m] : m \in 1..(j - 1)}
                       unselected == (0..(n - 1)) \ before
                   IN  /\ picks[j] \in unselected
                       /\ \A i \in unselected :
                              /\ MinDistToSet(sel.embs, i, before)
                                     <= MinDistToSet(sel.embs, picks[j], before)
                              /\ i < picks[j] =>
                                     MinDistToSet(sel.embs, i, before)
                                         < MinDistToSet(sel.embs, picks[j], before)
            /\ (sel.pc = "returned" /\ sel.k = 2) =>
                   \E far \in 1..(n - 1) :
                       /\ sel.result = <<0, far>>
                       /\ \A i \in 1..(n - 1) :
                              Dot(sel.embs[far + 1], sel.embs[1]) <= Dot(sel.embs[i + 1], sel.embs[1])

\* the boundaries of the returned call, as a set
Emitted == {det.result[j] : j \in 1..Len(det.result)}

\* the boundary emitted most recently before frame i is looked at
LastEmittedBefore(i) ==
    LET earlier == {b \in Emitted : b < i}
    IN  CHOOSE b \in earlier : \A c \in earlier : c <= b

\* the chi-square distance between frames i-1 and i is at least the threshold
CutAt(i) ==
    Chi2AtLeast(Histogram(det.frames[i]), Histogram(det.frames[i + 1]),
                Len(det.frames[1]), det.self.threshold)

\* C20: frame index i of 1..n-1 is in the result of detect_scenes if and only if
\* the chi-square distance between frames i-1 and i is at least the threshold and
\* i is at least min_scene_len after the most recently emitted boundary (a cut
\* closer than that is dropped, not moved to a later frame); four frames of one
\* colour and four of another, threshold 0.1, min_scene_len 1, give 0 and 4.
C20_BoundaryIffCutAndSpacing ==
    (det.pc = "returned" /\ Len(det.frames) >= 1) =>
        /\ 0 \in Emitted
        /\ \A i \in 1..(Len(det.frames) - 1) :
               i \in Emitted <=>
                   (CutAt(i) /\ i - LastEmittedBefore(i) >= det.self.min_scene_len)
        /\ \A b \in Emitted : b \in 0..(Len(det.frames) - 1)
        /\ (det.frames = TestFrames /\ det.self = SceneDetector(<<1, 10>>, 1))
               => det.result = <<0, 4>>

\* a cut one frame after the first boundary was dropped by a detector with
\* min_scene_len 2, and the next frame, far enough but without a cut, is no boundary
C20_Witness ==
    /\ det.pc = "returned"
    /\ det.self.min_scene_len = 2
    /\ Len(det.frames) >= 3
    /\ CutAt(1) /\ 1 \notin Emitted
    /\ ~CutAt(2) /\ 2 \notin Emitted

\* the frame indices of scene i (0-based) for boundaries b over n frames: from b[i]
\* up to the next boundary, the last scene up to n
SliceOf(b, n, i) ==
    LET start == b[i + 1]
        end == IF i + 1 < Len(b) THEN b[i + 2] ELSE n
    IN  start..(end - 1)

\* the slices of b over n frames are non-empty, pairwise disjoint and cover 0..n-1
SlicesPartition(b, n) ==
    /\ \A i \in 0..(Len(b) - 1) : SliceOf(b, n, i) # {}
    /\ \A i, j \in 0..(Len(b) - 1) : i # j => SliceOf(b, n, i) \cap SliceOf(b, n, j) = {}
    /\ UNION {SliceOf(b, n, i) : i \in 0..(Len(b) - 1)} = 0..(n - 1)

\* C21: the scene slices that run processes, cut at the boundaries detect_scenes
\* returned for the materialized frames (and those any detector with other
\* parameters would return for them), are non-empty, pairwise disjoint and cover
\* every frame index once; so no scene takes the "empty scene" branch, and a run
\* that returns without a detector failure has one summary per boundary.
C21_SlicesPartitionFrames ==
    /\ run.pc \in {"scenes", "select", "caption", "summarize", "final"} =>
           /\ SlicesPartition(run.boundaries, Len(run.frames))
           /\ run.pc \in {"select", "caption", "summarize"} => scene_frames(run) # << >>
    /\ (run.pc = "detect" /\ run.cb_errors = 0) =>
           \A t \in Thresholds, m \in 0..MaxMinSceneLen :
               SlicesPartition(detect_scenes(SceneDetector(t, m), run.frames), Len(run.frames))
    /\ \A j \in 1..Len(run.events) : run.events[j].msg # "empty scene"
    /\ (run.status = "returned" /\ <<"detector", -1>> \notin run.faults) =>
           Len(run.scene_summaries) = Len(run.boundaries)

\* a run over six frames that another detector would cut into three scenes
\* returned one summary for its one boundary
C21_Witness ==
    /\ run.status = "returned"
    /\ run.faults = {}
    /\ Len(run.frames) = 6
    /\ run.boundaries = <<0>>
    /\ Len(run.scene_summaries) = 1
    /\ Len(detect_scenes(SceneDetector(<<1, 10>>, 2), run.frames)) = 3

\* C22: a started run has _is_running set and the Run button disabled; its worker
\* schedules _done exactly once, after pipeline.run has returned or has raised;
\* _done clears _is_running and enables the Run button; so a running app always
\* comes back to not running, and never stays running once a worker has ended.
C22_DoneEventuallyScheduledOnce ==
    /\ [](gui.is_running <=> gui.run_btn = "disabled")
    /\ [](\A w \in 1..Len(gui.workers) :
              gui.workers[w].dones = IF gui.workers[w].pc = "exit" THEN 1 ELSE 0)
    /\ [][RunsDone => (~gui'.is_running /\ gui'.run_btn = "normal")]_vars
    /\ gui.is_running ~> ~gui.is_running
    /\ \A res \in {"string", "error"} :
           (\E w \in 1..Len(gui.workers) :
                gui.workers[w].pc = "ended" /\ gui.workers[w].res = res)
              ~> (gui.output = res /\ ~gui.is_running /\ gui.run_btn = "normal")

\* the second run's pipeline.run raised, its worker scheduled _done once and ended,
\* and _done has put the app back to not running
C22_Witness ==
    /\ Len(gui.workers) = 2
    /\ gui.workers[2] = Exited(NewWorker, 1)
    /\ gui.output = "error"
    /\ ~gui.is_running
    /\ gui.run_btn = "normal"
    /\ gui.after = << >>

\* C23: with n_keyframes not configured, select asks for k = min(5, n) keyframes
\* of a scene of n >= 1 frames (the default expression capped by n is never less
\* and never more), and a scene of fewer than 5 frames gets all its frames
\* selected.
C23_DefaultKeyframeCount ==
    LET n == Len(sel.feats)
    IN  /\ \A m \in 1..MaxSceneLen : KeyframeCount(0, m) = Min(5, m)
        /\ (sel.pc \notin {"idle", "call"} /\ sel.n_keyframes = 0 /\ n >= 1) =>
               /\ sel.k = Min(5, n)
               /\ sel.pc = "returned" =>
                      /\ Len(sel.result) = Min(5, n)
                      /\ n < 5 => \A j \in 1..n : sel.result[j] = j - 1

\* select has returned 5 keyframes of an 11-frame scene, n_keyframes not configured
C23_Witness ==
    /\ sel.pc = "returned"
    /\ sel.n_keyframes = 0
    /\ Len(sel.feats) = 11
    /\ sel.k = 5
    /\ Len(sel.result) = 5

=============================================================================
